---- MODULE Spec2Model ----
(***************************************************************************)
(* The obstacle detector node of lidar_obstacle_detector                    *)
(* (src/src/obstacle_detector_node.cpp): the parameter globals, the node's  *)
(* cross-frame fields (obstacle_id_, prev_boxes_, curr_boxes_), the two    *)
(* callbacks that ros::spin() dispatches, and what a frame publishes.       *)
(*                                                                         *)
(* Numbers.  Lengths are in units of 0.1 m and iou_threshold is in units of *)
(* 0.01, so that the floats of the source become integers: a displacement   *)
(* threshold of 0.5 m is 5, an IoU threshold of 0.1 is 10.                  *)
(*                                                                         *)
(* ObstacleDetector<PointT> (obstacle_detector.hpp) is not among the source *)
(* files: clustering, the two box fitters and obstacleTracking are modelled *)
(* from the specification's sections 4.3, 4.4 and 4.5.                       *)
(***************************************************************************)
EXTENDS Integers, Sequences, FiniteSets, TLC

\* The most groups of obstacle points one frame's segmentation yields.
MaxClusters == 2

\* size_t's largest value, scaled down so that the counter wraps within a
\* few frames.  A std::vector cannot hold SIZE_MAX + 1 elements, so one frame
\* always has fewer clusters than the counter has values; the scaled value
\* keeps that relation.
SIZE_MAX == MaxClusters

VARIABLES
  USE_PCA_BOX, USE_TRACKING, VOXEL_GRID_SIZE, ROI_MAX_POINT, ROI_MIN_POINT,
  GROUND_THRESH, CLUSTER_THRESH, CLUSTER_MAX_SIZE, CLUSTER_MIN_SIZE,
  DISPLACEMENT_THRESH, IOU_THRESH,   \* the parameter globals (lines 32-39)
  obstacle_id_,      \* the provisional-id counter (line 49)
  prev_boxes_,       \* the boxes of the last completed frame (line 52)
  curr_boxes_,       \* the boxes of the frame in flight (line 52)
  pc,                \* where the spinner's thread is: "idle" between callbacks
  cloudClusters,     \* local of lidarPointsCallback (line 135), <<>> outside it
  transform_stamped, \* local of lidarPointsCallback (line 141), NoTransform outside it
  outcome,           \* how the most recent callback ended
  published,         \* arrays the most recent lidar callback published, per topic
  jsk_bboxes,        \* the last array published on pub_jsk_bboxes
  autoware_objects,  \* the last array published on pub_autoware_objects
  frame_clusters,    \* the clusters the last box-construction loop went through
  provisional_ids,   \* the ids that loop drew from obstacle_id_, in order
  emitted_boxes      \* curr_boxes_ as the last emission loop read it

params == <<USE_PCA_BOX, USE_TRACKING, VOXEL_GRID_SIZE, ROI_MAX_POINT,
            ROI_MIN_POINT, GROUND_THRESH, CLUSTER_THRESH, CLUSTER_MAX_SIZE,
            CLUSTER_MIN_SIZE, DISPLACEMENT_THRESH, IOU_THRESH>>

node == <<obstacle_id_, prev_boxes_, curr_boxes_>>

locals == <<cloudClusters, transform_stamped>>

outputs == <<published, jsk_bboxes, autoware_objects, frame_clusters,
             provisional_ids, emitted_boxes>>

vars == <<params, node, pc, locals, outcome, outputs>>

-----------------------------------------------------------------------------
(* Inputs *)

\* A configuration as dynamic_reconfigure hands it to dynamicParamCallback.
Config(pca, trk, voxel, cmax, cmin, disp, iou) ==
  [use_pca_box |-> pca, use_tracking |-> trk, voxel_grid_size |-> voxel,
   roi_max_x |-> 300, roi_max_y |-> 100, roi_max_z |-> 10,
   roi_min_x |-> -300, roi_min_y |-> -100, roi_min_z |-> -20,
   ground_threshold |-> 3, cluster_threshold |-> 6,
   cluster_max_size |-> cmax, cluster_min_size |-> cmin,
   displacement_threshold |-> disp, iou_threshold |-> iou]

\* Displacement 0.5 m, IoU 0.9, clusters of 1 to 5 points, tracking on.
DefaultConfig == Config(FALSE, TRUE, 2, 5, 1, 5, 90)

\* Valid and invalid configurations: the default; tracking off and clusters
\* of at least 3 points; oriented boxes, displacement 0.0 and IoU 0.5; and
\* an invalid one, with cluster_min_size > cluster_max_size,
\* voxel_grid_size 0, displacement_threshold -0.1 and iou_threshold 1.5.
Configs ==
  { DefaultConfig,
    Config(FALSE, FALSE, 2, 5, 3, 5, 90),
    Config(TRUE, TRUE, 2, 5, 1, 0, 50),
    Config(FALSE, TRUE, 0, 1, 5, -1, 150) }

\* A group of obstacle points as segmentation leaves it: the number of its
\* points, the centre and extents of its axis-aligned hull, and the yaw of
\* its principal axis as a quaternion <<w, x, y, z>>.
Group(n, pos, dim, q) ==
  [npoints |-> n, position |-> pos, dimension |-> dim, principal |-> q]

IdentityQuaternion == <<1, 0, 0, 0>>

HalfTurnYaw == <<0, 0, 0, 1>>

\* An obstacle at the origin, the same 0.1 m further, and one far away.
Groups ==
  { Group(4, <<0, 0, 0>>, <<10, 10, 10>>, IdentityQuaternion),
    Group(4, <<1, 0, 0>>, <<10, 10, 12>>, HalfTurnYaw),
    Group(2, <<100, 100, 100>>, <<20, 10, 5>>, HalfTurnYaw) }

\* The frames: up to MaxClusters distinct groups, in the order a sweep along
\* x meets them, in either direction.
Frames ==
  { f \in UNION { [1..n -> Groups] : n \in 0..MaxClusters } :
      \/ \A i, j \in DOMAIN f : i < j => f[i].position[1] < f[j].position[1]
      \/ \A i, j \in DOMAIN f : i < j => f[i].position[1] > f[j].position[1] }

\* What tf2_buffer.lookupTransform does: it returns a transform (here its
\* translation) or throws a tf2::TransformException.
Lookup(throws, translation) == [throws |-> throws, translation |-> translation]

Lookups == { Lookup(TRUE, <<0, 0, 0>>), Lookup(FALSE, <<20, 0, -5>>) }

\* A default-constructed geometry_msgs::TransformStamped (line 141).
NoTransform == <<0, 0, 0>>

-----------------------------------------------------------------------------
(* ObstacleDetector<PointT>, from the specification *)

\* 4.3: groups with fewer than min_size or more than max_size points are dropped.
clustering(groups, min_size, max_size) ==
  LET keep(g) == g.npoints >= min_size /\ g.npoints <= max_size
  IN  SelectSeq(groups, keep)

\* 4.4, axis-aligned: identity orientation, the supplied id.
axisAlignedBoundingBox(cluster, id) ==
  [id |-> id, position |-> cluster.position, dimension |-> cluster.dimension,
   quaternion |-> IdentityQuaternion]

\* 4.4, oriented: a yaw-only rotation from the principal axis, the supplied id.
pcaBoundingBox(cluster, id) ==
  [id |-> id, position |-> cluster.position, dimension |-> cluster.dimension,
   quaternion |-> cluster.principal]

Max(a, b) == IF a >= b THEN a ELSE b

Min(a, b) == IF a <= b THEN a ELSE b

\* 4.5 step 1: the squared Euclidean distance between two centroids.
SquaredDisplacement(p, c) ==
  LET d(k) == p.position[k] - c.position[k]
  IN  d(1) * d(1) + d(2) * d(2) + d(3) * d(3)

\* The overlap of two boxes along axis k, the boxes taken as axis-aligned,
\* in half units: a box spans position - dimension/2 .. position + dimension/2.
Overlap(p, c, k) ==
  Max(0, Min(2 * p.position[k] + p.dimension[k], 2 * c.position[k] + c.dimension[k])
         - Max(2 * p.position[k] - p.dimension[k], 2 * c.position[k] - c.dimension[k]))

Volume(b) == 8 * b.dimension[1] * b.dimension[2] * b.dimension[3]

Intersection(p, c) == Overlap(p, c, 1) * Overlap(p, c, 2) * Overlap(p, c, 3)

Union(p, c) == Volume(p) + Volume(c) - Intersection(p, c)

\* 4.5 step 1: the two scores of a pair (previous box, current box), the
\* IoU as intersection and union.
ComputeScore(p, c) ==
  [displacement |-> SquaredDisplacement(p, c),
   intersection |-> Intersection(p, c), union |-> Union(p, c)]

\* The scores, tabulated once over the shapes the groups give their boxes
\* (neither fitter changes a group's position or dimension).
Shape(b) == [position |-> b.position, dimension |-> b.dimension]

ScoreTable ==
  [a \in { Shape(g) : g \in Groups } \X { Shape(g) : g \in Groups } |->
     ComputeScore(a[1], a[2])]

Score(p, c) == ScoreTable[<<Shape(p), Shape(c)>>]

\* 4.5 step 2: displacement <= displacement_threshold or IoU >= iou_threshold.
WithinDisplacement(score, displacement_thresh) ==
  /\ displacement_thresh >= 0
  /\ score.displacement <= displacement_thresh * displacement_thresh

WithinIoU(score, iou_thresh) ==
  100 * score.intersection >= iou_thresh * score.union

EligibleScore(score, displacement_thresh, iou_thresh) ==
  \/ WithinDisplacement(score, displacement_thresh)
  \/ WithinIoU(score, iou_thresh)

Eligible(p, c, displacement_thresh, iou_thresh) ==
  EligibleScore(Score(p, c), displacement_thresh, iou_thresh)

\* 4.5 step 3, the fixed order of the greedy choice: the lower displacement
\* first, then the higher IoU, then the lower indices.
Better(scores, a, b) ==
  LET sa == scores[a]
      sb == scores[b]
      ia == sa.intersection * sb.union
      ib == sb.intersection * sa.union
  IN  \/ sa.displacement < sb.displacement
      \/ sa.displacement = sb.displacement /\ ia > ib
      \/ sa.displacement = sb.displacement /\ ia = ib /\ a[1] < b[1]
      \/ sa.displacement = sb.displacement /\ ia = ib /\ a[1] = b[1] /\ a[2] <= b[2]

\* 4.5 step 3: the best remaining pair is matched, and both its boxes are
\* removed from further consideration, until no eligible pair remains.
RECURSIVE GreedyMatch(_, _, _)
GreedyMatch(scores, pairs, matched) ==
  IF pairs = {} THEN matched
  ELSE LET best == CHOOSE a \in pairs : \A b \in pairs : Better(scores, a, b)
       IN  GreedyMatch(scores,
                       { b \in pairs : b[1] # best[1] /\ b[2] # best[2] },
                       matched \cup {best})

\* 4.5: C.id = P.id for every matched pair (P, C); steps 4 and 5: the other
\* current boxes keep their ids, the other previous boxes are dropped.
obstacleTracking(prev_boxes, curr_boxes, displacement_thresh, iou_thresh) ==
  LET scores == [a \in (DOMAIN prev_boxes) \X (DOMAIN curr_boxes) |->
                   Score(prev_boxes[a[1]], curr_boxes[a[2]])]
      eligible == { a \in DOMAIN scores :
                      EligibleScore(scores[a], displacement_thresh, iou_thresh) }
      matched == GreedyMatch(scores, eligible, {})
  IN  [j \in DOMAIN curr_boxes |->
         IF \E a \in matched : a[2] = j
           THEN [curr_boxes[j] EXCEPT
                   !.id = prev_boxes[(CHOOSE a \in matched : a[2] = j)[1]].id]
           ELSE curr_boxes[j]]

-----------------------------------------------------------------------------
(* The node *)

\* The counter without the reset at SIZE_MAX.
NextObstacleId_NoReset(id) == id + 1

\* line 172
NextObstacleId(id) == IF id < SIZE_MAX THEN id + 1 ELSE 0

\* lines 159-174: one box per cluster, appended to curr_boxes_.
RECURSIVE ConstructLoop(_, _, _, _, _)
ConstructLoop(clusters, use_pca_box, id, boxes, drawn) ==
  IF clusters = <<>>
    THEN [curr_boxes |-> boxes, obstacle_id |-> id, drawn |-> drawn]
    ELSE LET box == IF use_pca_box
                      THEN pcaBoundingBox(Head(clusters), id)
                      ELSE axisAlignedBoundingBox(Head(clusters), id)
         IN  ConstructLoop(Tail(clusters), use_pca_box, NextObstacleId(id),
                           Append(boxes, box), Append(drawn, id))

\* drawn: the ids handed to the fitters, in order.
ConstructBoxes(clusters, use_pca_box, id, boxes) ==
  ConstructLoop(clusters, use_pca_box, id, boxes, <<>>)

\* The tracker called whatever USE_TRACKING says.
ReassignIds_Always(use_tracking, prev_boxes, curr_boxes, displacement_thresh, iou_thresh) ==
  obstacleTracking(prev_boxes, curr_boxes, displacement_thresh, iou_thresh)

\* The tracker called when USE_TRACKING is false.
ReassignIds_Inverted(use_tracking, prev_boxes, curr_boxes, displacement_thresh, iou_thresh) ==
  IF use_tracking
    THEN curr_boxes
    ELSE obstacleTracking(prev_boxes, curr_boxes, displacement_thresh, iou_thresh)

\* The tracker called with its two thresholds in the other order.
ReassignIds_Swapped(use_tracking, prev_boxes, curr_boxes, displacement_thresh, iou_thresh) ==
  IF use_tracking
    THEN obstacleTracking(prev_boxes, curr_boxes, iou_thresh, displacement_thresh)
    ELSE curr_boxes

\* lines 176-178
ReassignIds(use_tracking, prev_boxes, curr_boxes, displacement_thresh, iou_thresh) ==
  IF use_tracking
    THEN obstacleTracking(prev_boxes, curr_boxes, displacement_thresh, iou_thresh)
    ELSE curr_boxes

\* lines 183-191: the pose of a box in the target frame (the translation of
\* the looked-up transform applied to the position).
TransformPose(box, transform) ==
  [position |-> [k \in 1..3 |-> box.position[k] + transform[k]],
   orientation |-> box.quaternion]

\* lines 218-233.  Box (its id's type) and the two message types are declared
\* outside the source files; the id is copied as the assignment copies it.
transformJskBbox(box, pose_transformed) ==
  [pose |-> pose_transformed, dimensions |-> box.dimension, value |-> 1,
   label |-> box.id]

\* lines 236-255
transformAutowareObject(box, pose_transformed) ==
  [id |-> box.id, label |-> "unknown", score |-> 1,
   pose |-> pose_transformed, pose_reliable |-> TRUE,
   dimensions |-> box.dimension, valid |-> TRUE]

\* lines 181-195
JskBoxes(boxes, transform) ==
  [i \in DOMAIN boxes |-> transformJskBbox(boxes[i], TransformPose(boxes[i], transform))]

AutowareObjects(boxes, transform) ==
  [i \in DOMAIN boxes |->
     transformAutowareObject(boxes[i], TransformPose(boxes[i], transform))]

\* The clear without the swap.
UpdatePreviousBoxes_NoSwap(prev_boxes, curr_boxes) ==
  [prev_boxes |-> prev_boxes, curr_boxes |-> <<>>]

\* The swap without the clear.
UpdatePreviousBoxes_NoClear(prev_boxes, curr_boxes) ==
  [prev_boxes |-> curr_boxes, curr_boxes |-> prev_boxes]

\* lines 199-201: prev_boxes_.swap(curr_boxes_); curr_boxes_.clear()
UpdatePreviousBoxes(prev_boxes, curr_boxes) ==
  [prev_boxes |-> curr_boxes, curr_boxes |-> <<>>]

\* A catch block that also forgets the previous frame.
AbandonFrame_ResetTracking(fields) == [fields EXCEPT !.prev_boxes = <<>>]

\* lines 146-150: the catch block warns and returns; the node's fields are
\* what they were.
AbandonFrame(fields) == fields

\* A spinner with several threads: a callback starts whatever else runs.
SpinnerFree_MultiThreaded(at) == TRUE

\* lines 260-266: ros::spin() runs the callbacks of the global queue on one
\* thread, one at a time.
SpinnerFree(at) == at = "idle"

Init ==
  /\ USE_PCA_BOX = DefaultConfig.use_pca_box
  /\ USE_TRACKING = DefaultConfig.use_tracking
  /\ VOXEL_GRID_SIZE = DefaultConfig.voxel_grid_size
  /\ ROI_MAX_POINT = <<DefaultConfig.roi_max_x, DefaultConfig.roi_max_y,
                       DefaultConfig.roi_max_z, 1>>
  /\ ROI_MIN_POINT = <<DefaultConfig.roi_min_x, DefaultConfig.roi_min_y,
                       DefaultConfig.roi_min_z, 1>>
  /\ GROUND_THRESH = DefaultConfig.ground_threshold
  /\ CLUSTER_THRESH = DefaultConfig.cluster_threshold
  /\ CLUSTER_MAX_SIZE = DefaultConfig.cluster_max_size
  /\ CLUSTER_MIN_SIZE = DefaultConfig.cluster_min_size
  /\ DISPLACEMENT_THRESH = DefaultConfig.displacement_threshold
  /\ IOU_THRESH = DefaultConfig.iou_threshold
  /\ obstacle_id_ = 0
  /\ prev_boxes_ = <<>>
  /\ curr_boxes_ = <<>>
  /\ pc = "idle"
  /\ cloudClusters = <<>>
  /\ transform_stamped = NoTransform
  /\ outcome = "constructed"
  /\ published = [jsk |-> 0, autoware |-> 0]
  /\ jsk_bboxes = <<>>
  /\ autoware_objects = <<>>
  /\ frame_clusters = <<>>
  /\ provisional_ids = <<>>
  /\ emitted_boxes = <<>>

\* lines 74-88
dynamicParamCallback(config) ==
  /\ SpinnerFree(pc)
  /\ USE_PCA_BOX' = config.use_pca_box
  /\ USE_TRACKING' = config.use_tracking
  /\ VOXEL_GRID_SIZE' = config.voxel_grid_size
  /\ ROI_MAX_POINT' = <<config.roi_max_x, config.roi_max_y, config.roi_max_z, 1>>
  /\ ROI_MIN_POINT' = <<config.roi_min_x, config.roi_min_y, config.roi_min_z, 1>>
  /\ GROUND_THRESH' = config.ground_threshold
  /\ CLUSTER_THRESH' = config.cluster_threshold
  /\ CLUSTER_MAX_SIZE' = config.cluster_max_size
  /\ CLUSTER_MIN_SIZE' = config.cluster_min_size
  /\ DISPLACEMENT_THRESH' = config.displacement_threshold
  /\ IOU_THRESH' = config.iou_threshold
  /\ outcome' = "reconfigured"
  /\ UNCHANGED <<node, pc, locals, outputs>>

\* lines 122-202, the whole callback.  (\E x \in {e} names the value of e.)
lidarPointsCallback(groups, lookup) ==
  /\ SpinnerFree(pc)
  /\ \E clusters \in { clustering(groups, CLUSTER_MIN_SIZE, CLUSTER_MAX_SIZE) } :
       IF lookup.throws
         THEN \E kept \in { AbandonFrame([obstacle_id |-> obstacle_id_,
                                           prev_boxes |-> prev_boxes_,
                                           curr_boxes |-> curr_boxes_]) } :
                /\ obstacle_id_' = kept.obstacle_id
                /\ prev_boxes_' = kept.prev_boxes
                /\ curr_boxes_' = kept.curr_boxes
                /\ published' = [jsk |-> 0, autoware |-> 0]
                /\ outcome' = "failed"
                /\ UNCHANGED <<jsk_bboxes, autoware_objects, frame_clusters,
                               provisional_ids, emitted_boxes>>
         ELSE \E built \in { ConstructBoxes(clusters, USE_PCA_BOX, obstacle_id_,
                                             curr_boxes_) } :
              \E tracked \in { ReassignIds(USE_TRACKING, prev_boxes_, built.curr_boxes,
                                            DISPLACEMENT_THRESH, IOU_THRESH) } :
              \E swapped \in { UpdatePreviousBoxes(prev_boxes_, tracked) } :
                /\ obstacle_id_' = built.obstacle_id
                /\ jsk_bboxes' = JskBoxes(tracked, lookup.translation)
                /\ autoware_objects' = AutowareObjects(tracked, lookup.translation)
                /\ published' = [jsk |-> 1, autoware |-> 1]
                /\ prev_boxes_' = swapped.prev_boxes
                /\ curr_boxes_' = swapped.curr_boxes
                /\ frame_clusters' = clusters
                /\ provisional_ids' = built.drawn
                /\ emitted_boxes' = tracked
                /\ outcome' = "completed"
  /\ UNCHANGED <<params, pc, locals>>

Next ==
  \/ \E config \in Configs : dynamicParamCallback(config)
  \/ \E groups \in Frames, lookup \in Lookups : lidarPointsCallback(groups, lookup)

Spec == Init /\ [][Next]_vars

-----------------------------------------------------------------------------
(* The lidar callback statement by statement, for what may happen between *)
(* two of its statements.                                                  *)

\* lines 122-138: the callback starts; filter, segment, cluster, publish the
\* two clouds.
ReceiveLidarPoints(groups) ==
  /\ SpinnerFree(pc)
  /\ cloudClusters' = clustering(groups, CLUSTER_MIN_SIZE, CLUSTER_MAX_SIZE)
  /\ published' = [jsk |-> 0, autoware |-> 0]
  /\ outcome' = "running"
  /\ pc' = "lookup"
  /\ UNCHANGED <<params, node, transform_stamped, jsk_bboxes, autoware_objects,
                 frame_clusters, provisional_ids, emitted_boxes>>

\* lines 141-150
LookupTransform(lookup) ==
  /\ pc = "lookup"
  /\ IF lookup.throws
       THEN \E kept \in { AbandonFrame([obstacle_id |-> obstacle_id_,
                                         prev_boxes |-> prev_boxes_,
                                         curr_boxes |-> curr_boxes_]) } :
              /\ obstacle_id_' = kept.obstacle_id
              /\ prev_boxes_' = kept.prev_boxes
              /\ curr_boxes_' = kept.curr_boxes
              /\ cloudClusters' = <<>>
              /\ transform_stamped' = NoTransform
              /\ outcome' = "failed"
              /\ pc' = "idle"
       ELSE /\ transform_stamped' = lookup.translation
            /\ pc' = "construct"
            /\ UNCHANGED <<node, cloudClusters, outcome>>
  /\ UNCHANGED <<params, outputs>>

\* lines 159-174
ConstructBoundingBoxes ==
  /\ pc = "construct"
  /\ \E built \in { ConstructBoxes(cloudClusters, USE_PCA_BOX, obstacle_id_,
                                    curr_boxes_) } :
       /\ curr_boxes_' = built.curr_boxes
       /\ obstacle_id_' = built.obstacle_id
       /\ provisional_ids' = built.drawn
  /\ frame_clusters' = cloudClusters
  /\ pc' = "track"
  /\ UNCHANGED <<params, prev_boxes_, locals, outcome, published, jsk_bboxes,
                 autoware_objects, emitted_boxes>>

\* lines 176-178
ReassignBoxIds ==
  /\ pc = "track"
  /\ curr_boxes_' = ReassignIds(USE_TRACKING, prev_boxes_, curr_boxes_,
                                DISPLACEMENT_THRESH, IOU_THRESH)
  /\ pc' = "emit"
  /\ UNCHANGED <<params, obstacle_id_, prev_boxes_, locals, outcome, outputs>>

\* lines 181-201: publish the two arrays, update the previous boxes, return.
EmitAndUpdate ==
  /\ pc = "emit"
  /\ jsk_bboxes' = JskBoxes(curr_boxes_, transform_stamped)
  /\ autoware_objects' = AutowareObjects(curr_boxes_, transform_stamped)
  /\ published' = [jsk |-> 1, autoware |-> 1]
  /\ emitted_boxes' = curr_boxes_
  /\ \E swapped \in { UpdatePreviousBoxes(prev_boxes_, curr_boxes_) } :
       /\ prev_boxes_' = swapped.prev_boxes
       /\ curr_boxes_' = swapped.curr_boxes
  /\ cloudClusters' = <<>>
  /\ transform_stamped' = NoTransform
  /\ outcome' = "completed"
  /\ pc' = "idle"
  /\ UNCHANGED <<params, obstacle_id_, frame_clusters, provisional_ids>>

NextSteps ==
  \/ \E config \in Configs : dynamicParamCallback(config)
  \/ \E groups \in Frames : ReceiveLidarPoints(groups)
  \/ \E lookup \in Lookups : LookupTransform(lookup)
  \/ ConstructBoundingBoxes
  \/ ReassignBoxIds
  \/ EmitAndUpdate

SpecSteps == Init /\ [][NextSteps]_vars

-----------------------------------------------------------------------------
(* Properties *)

NothingPublished == [jsk |-> 0, autoware |-> 0]

BothPublished == [jsk |-> 1, autoware |-> 1]

DistinctIds(boxes) ==
  \A i, j \in DOMAIN boxes : i # j => boxes[i].id # boxes[j].id

\* The id of a box is the provisional id it was created with.
KeepsProvisional(boxes, drawn) ==
  /\ Len(boxes) = Len(drawn)
  /\ \A i \in DOMAIN boxes : boxes[i].id = drawn[i]

\* The k-th value the counter takes after value id (k = 0: id itself).
CounterAfter(id, k) == (id + k) % (SIZE_MAX + 1)

ValidParameters ==
  /\ VOXEL_GRID_SIZE > 0
  /\ CLUSTER_MIN_SIZE <= CLUSTER_MAX_SIZE
  /\ DISPLACEMENT_THRESH >= 0
  /\ IOU_THRESH >= 0
  /\ IOU_THRESH <= 100

\* C1: a frame whose transform lookup throws leaves prev_boxes_, curr_boxes_
\* and obstacle_id_ as they were, publishes neither array (the arrays last
\* published stay the last published), and the callback returns.
C1_FailedFrameLeavesState ==
  [][outcome' = "failed" =>
       /\ prev_boxes_' = prev_boxes_
       /\ curr_boxes_' = curr_boxes_
       /\ obstacle_id_' = obstacle_id_
       /\ published' = NothingPublished
       /\ jsk_bboxes' = jsk_bboxes
       /\ autoware_objects' = autoware_objects
       /\ pc' = "idle"]_vars

\* A failed frame after completed ones: there are previous boxes to keep.
C1_Witness ==
  /\ outcome = "failed"
  /\ prev_boxes_ # <<>>
  /\ obstacle_id_ > 0
  /\ published = NothingPublished

\* C2: between callbacks curr_boxes_ is empty and prev_boxes_ is the box set
\* (after tracking) that the most recent completed frame emitted, the empty
\* set before any frame has completed; the published labels are its ids.
C2_PreviousIsLastEmitted ==
  pc = "idle" =>
    /\ curr_boxes_ = <<>>
    /\ prev_boxes_ = emitted_boxes
    /\ Len(jsk_bboxes) = Len(prev_boxes_)
    /\ \A i \in DOMAIN prev_boxes_ : jsk_bboxes[i].label = prev_boxes_[i].id

\* A failed frame, tracking off, after a completed frame of two boxes.
C2_Witness ==
  /\ outcome = "failed"
  /\ ~USE_TRACKING
  /\ Len(prev_boxes_) = 2
  /\ prev_boxes_ = emitted_boxes

\* C3: with tracking enabled, the ids of the boxes a completed frame emits
\* are pairwise distinct.
C3_EmittedIdsDistinct ==
  (outcome = "completed" /\ USE_TRACKING) => DistinctIds(emitted_boxes)

\* C4 as stated: with tracking enabled, a current box within
\* displacement_threshold of one previous box and of no other previous box
\* is emitted with that previous box's id.
C4_NearOnePreviousKeepsId ==
  [][(outcome' = "completed" /\ USE_TRACKING) =>
       \A j \in DOMAIN emitted_boxes' : \A i \in DOMAIN prev_boxes_ :
         ( /\ WithinDisplacement(Score(prev_boxes_[i], emitted_boxes'[j]),
                                 DISPLACEMENT_THRESH)
           /\ \A k \in DOMAIN prev_boxes_ \ {i} :
                ~WithinDisplacement(Score(prev_boxes_[k], emitted_boxes'[j]),
                                    DISPLACEMENT_THRESH) )
         => emitted_boxes'[j].id = prev_boxes_[i].id]_vars

\* C4, amended: with tracking enabled, a current box within
\* displacement_threshold of a previous box is emitted with that box's id
\* when the two are an eligible match (by displacement or IoU) for each
\* other only: no other current box for the previous one, no other previous
\* box for the current one.
C4_OnlyMatchKeepsId ==
  [][(outcome' = "completed" /\ USE_TRACKING) =>
       \A j \in DOMAIN emitted_boxes' : \A i \in DOMAIN prev_boxes_ :
         ( /\ WithinDisplacement(Score(prev_boxes_[i], emitted_boxes'[j]),
                                 DISPLACEMENT_THRESH)
           /\ \A k \in DOMAIN prev_boxes_ \ {i} :
                ~Eligible(prev_boxes_[k], emitted_boxes'[j],
                          DISPLACEMENT_THRESH, IOU_THRESH)
           /\ \A l \in DOMAIN emitted_boxes' \ {j} :
                ~Eligible(prev_boxes_[i], emitted_boxes'[l],
                          DISPLACEMENT_THRESH, IOU_THRESH) )
         => emitted_boxes'[j].id = prev_boxes_[i].id]_vars

\* A tracked frame of one box whose id is not the provisional id drawn for
\* it: the tracker wrote a previous box's id over it.
C4_Witness ==
  /\ outcome = "completed"
  /\ USE_TRACKING
  /\ Len(emitted_boxes) = 1
  /\ emitted_boxes[1].id # provisional_ids[1]
  /\ prev_boxes_ = emitted_boxes

\* C5: with tracking disabled every emitted box has the provisional id it was
\* created with, the value of obstacle_id_ when its cluster was fitted,
\* whatever prev_boxes_ holds; so a frame's ids differ from those of the
\* frame completed before it when that frame's ids were provisional too (two
\* frames together creating no more boxes than SIZE_MAX).
C5_UntrackedIdsAreProvisional ==
  [][(outcome' = "completed" /\ ~USE_TRACKING) =>
       /\ Len(emitted_boxes') = Len(frame_clusters')
       /\ \A j \in DOMAIN emitted_boxes' :
            emitted_boxes'[j].id = CounterAfter(obstacle_id_, j - 1)
       /\ ( /\ outcome # "constructed"
            /\ KeepsProvisional(prev_boxes_, provisional_ids)
            /\ Len(prev_boxes_) + Len(emitted_boxes') <= SIZE_MAX )
          => \A i \in DOMAIN prev_boxes_ : \A j \in DOMAIN emitted_boxes' :
               prev_boxes_[i].id # emitted_boxes'[j].id]_vars

\* An untracked frame that emitted boxes.
C5_Witness ==
  /\ outcome = "completed"
  /\ ~USE_TRACKING
  /\ emitted_boxes # <<>>
  /\ KeepsProvisional(emitted_boxes, provisional_ids)

\* C6: obstacle_id_ starts at 0, stays within 0..SIZE_MAX, is left alone by a
\* failed frame and a reconfiguration, and in a completed frame advances by 1
\* for each box created, from SIZE_MAX to 0: the k-th box of the frame is
\* created with the k-th counter value.
C6_CounterAdvances ==
  /\ obstacle_id_ = 0
  /\ [][/\ obstacle_id_' \in 0..SIZE_MAX
        /\ outcome' # "completed" => obstacle_id_' = obstacle_id_
        /\ outcome' = "completed" =>
             /\ Len(provisional_ids') = Len(frame_clusters')
             /\ \A k \in DOMAIN provisional_ids' :
                  provisional_ids'[k] = CounterAfter(obstacle_id_, k - 1)
             /\ obstacle_id_' = CounterAfter(obstacle_id_, Len(frame_clusters'))]_vars

\* A frame in which the counter wraps: one box created with SIZE_MAX and the
\* next with 0.
C6_Witness ==
  /\ outcome = "completed"
  /\ \E k \in DOMAIN provisional_ids :
       /\ k + 1 \in DOMAIN provisional_ids
       /\ provisional_ids[k] = SIZE_MAX
       /\ provisional_ids[k + 1] = 0

\* C7: no frame is processed with an invalid configuration as the live
\* parameters.
C7_FramesSeeValidParameters ==
  outcome \in {"completed", "failed"} => ValidParameters

\* C8: after a completed frame each emitted box has its own provisional id or
\* the id of a previous box it is an eligible match for (displacement <=
\* displacement_threshold or IoU >= iou_threshold); a box eligible with no
\* previous box, and every box when prev_boxes_ is empty, has its provisional
\* id.
C8_IdsComeFromEligibleMatches ==
  [][outcome' = "completed" =>
       /\ Len(emitted_boxes') = Len(provisional_ids')
       /\ \A j \in DOMAIN emitted_boxes' :
            \/ emitted_boxes'[j].id = provisional_ids'[j]
            \/ \E i \in DOMAIN prev_boxes_ :
                 /\ emitted_boxes'[j].id = prev_boxes_[i].id
                 /\ Eligible(prev_boxes_[i], emitted_boxes'[j],
                             DISPLACEMENT_THRESH, IOU_THRESH)]_vars

\* A tracked frame of two boxes: one emitted with an id that is not its
\* provisional one, and the far one, at (10, 10, 10), with its provisional id.
C8_Witness ==
  /\ outcome = "completed"
  /\ USE_TRACKING
  /\ Len(emitted_boxes) = 2
  /\ \E j, k \in DOMAIN emitted_boxes :
       /\ emitted_boxes[j].id # provisional_ids[j]
       /\ emitted_boxes[k].position = <<100, 100, 100>>
       /\ emitted_boxes[k].id = provisional_ids[k]

\* C9: while a frame is in flight no parameter changes and no other frame
\* starts, and its locals and the node's fields change only from one of its
\* statements to the next.
C9_OneCallbackAtATime ==
  [][pc # "idle" =>
       /\ params' = params
       /\ pc' # "lookup"
       /\ <<pc, pc'>> \in { <<"lookup", "idle">>, <<"lookup", "construct">>,
                            <<"construct", "track">>, <<"track", "emit">>,
                            <<"emit", "idle">> }]_vars

\* A frame of two boxes between its tracking and its emission.
C9_Witness ==
  /\ pc = "emit"
  /\ Len(curr_boxes_) = 2
  /\ prev_boxes_ # <<>>

\* C10: a completed frame publishes each array once, with one box and one
\* object per cluster of the frame, in cluster order, each with the id its
\* box has after tracking and the dimension of its cluster's box.
C10_OnePublishedBoxPerCluster ==
  outcome = "completed" =>
    /\ published = BothPublished
    /\ Len(emitted_boxes) = Len(frame_clusters)
    /\ Len(jsk_bboxes) = Len(frame_clusters)
    /\ Len(autoware_objects) = Len(frame_clusters)
    /\ \A i \in DOMAIN frame_clusters :
         /\ emitted_boxes[i].position = frame_clusters[i].position
         /\ jsk_bboxes[i].label = emitted_boxes[i].id
         /\ jsk_bboxes[i].dimensions = frame_clusters[i].dimension
         /\ autoware_objects[i].id = emitted_boxes[i].id
         /\ autoware_objects[i].dimensions = frame_clusters[i].dimension

\* A tracked frame of two clusters, the first published with a carried id.
C10_Witness ==
  /\ outcome = "completed"
  /\ Len(frame_clusters) = 2
  /\ Len(jsk_bboxes) = 2
  /\ jsk_bboxes[1].label # provisional_ids[1]

====
